---- MODULE Spec2Model ----
(***************************************************************************)
(* Model of the recursive broken link checker (src/index.js).              *)
(*                                                                         *)
(* Strings are sequences of one-character strings, so that startsWith,     *)
(* replace, split, includes, slice and the href regular expression are     *)
(* computed the way the JavaScript computes them.                          *)
(***************************************************************************)
EXTENDS Integers, Sequences, FiniteSets, TLC

VARIABLES
    argv,           \* process.argv[2], the starting URL as typed
    baseUrl,        \* const baseUrl = startingUrl (after the scheme fix-up)
    urlQueue,       \* the frontier array (runLinkCheck's `queue` is the same array)
    visitedUrls,    \* the Set of URLs already popped for a fetch
    brokenLinks,    \* the broken-link records, in push order
    queuePosition,  \* runLinkCheck's local queuePosition
    pc,             \* position of runLinkCheck: start, loop, fetch, text, done
    cur,            \* the destructured { url, foundOn } of the current iteration
    resp,           \* the settled result of `await fetch(url)` of this iteration
    err,            \* what the catch block of this iteration received, if anything
    timerOn,        \* the progress interval is set and not yet cleared
    completion,     \* the percentage the progress callback logged during the
                    \* await now pending (0 while none was logged)
    report,         \* what the report stage printed and saved
    fetched,        \* history: the fetch(url) calls issued, in order
    pages           \* history: the bodies response.text() delivered, by page URL

vars == <<argv, baseUrl, urlQueue, visitedUrls, brokenLinks, queuePosition, pc,
          cur, resp, err, timerOn, completion, report, fetched, pages>>

-----------------------------------------------------------------------------
(* Bounds of the model *)

\* The modelled web has at most this many URLs that serve an HTML body of
\* their own choice; every other URL that serves HTML serves an empty body.
\* This keeps the web finite; a URL serves the same body whenever it is read.
MaxPages == 2

-----------------------------------------------------------------------------
(* JavaScript string primitives on character sequences *)

Min(S) == CHOOSE x \in S : \A y \in S : x <= y

\* s.startsWith(p)
StartsWith(s, p) == Len(p) <= Len(s) /\ SubSeq(s, 1, Len(p)) = p

\* the start positions (1-based) of the occurrences of p in s
Occurrences(s, p) ==
    {i \in 1..(Len(s) - Len(p) + 1) : SubSeq(s, i, i + Len(p) - 1) = p}

\* s.includes(p)
Includes(s, p) == Occurrences(s, p) # {}

\* s.replace(p, r) with a string pattern: the first occurrence only
Replace(s, p, r) ==
    IF Occurrences(s, p) = {} THEN s
    ELSE LET i == Min(Occurrences(s, p))
         IN  SubSeq(s, 1, i - 1) \o r \o SubSeq(s, i + Len(p), Len(s))

\* s.split(sep)[0]
SplitHead(s, sep) ==
    IF Occurrences(s, sep) = {} THEN s
    ELSE SubSeq(s, 1, Min(Occurrences(s, sep)) - 1)

\* s.slice(6, -1)
Slice6(s) == SubSeq(s, 7, Len(s) - 1)

-----------------------------------------------------------------------------
(* String literals of the source *)

sHttp      == <<"h", "t", "t", "p">>
sHttpColon == <<"h", "t", "t", "p", ":", "/", "/">>
sHttps     == <<"h", "t", "t", "p", "s", ":", "/", "/">>
sSlash     == <<"/">>
sHash      == <<"#">>
sMailto    == <<"m", "a", "i", "l", "t", "o", ":">>
sTel       == <<"t", "e", "l", ":">>
sTrue      == <<"t", "r", "u", "e">>
sFalse     == <<"f", "a", "l", "s", "e">>
sQuery     == <<"?">>
sTextHtml  == <<"t", "e", "x", "t", "/", "h", "t", "m", "l">>
sHrefOpen  == <<"h", "r", "e", "f", "=", "\"">>
sQuote     == "\""
sBaseUrlSentinel == <<"b", "a", "s", "e", " ", "U", "R", "L">>

\* the characters the regular expression's `.` does not match
LineTerminators == {"\n", "\r"}

-----------------------------------------------------------------------------
(* Start-up: lines 12-28 *)

\* lines 14-18: the scheme fix-up of the starting URL
StartingUrl(a) ==
    IF StartsWith(a, sHttp)
    THEN Replace(a, sHttpColon, sHttps)
    ELSE sHttps \o a

\* lines 20-25 with the seed attributed to itself
SeedEntryFoundOnSelf(startingUrl) == [url |-> startingUrl, foundOn |-> startingUrl]

\* lines 20-25: the frontier's first entry
SeedEntry(startingUrl) == [url |-> startingUrl, foundOn |-> sBaseUrlSentinel]

-----------------------------------------------------------------------------
(* getHrefs: lines 118-152 *)

\* The end position of the match of /href=".+?"/ that starts at position i of
\* text, or 0 when there is none: the literal href=", one character that is no
\* line terminator, then as few such characters as possible up to a quote.
MatchEnd(text, i) ==
    IF i + 5 > Len(text) \/ SubSeq(text, i, i + 5) # sHrefOpen THEN 0
    ELSE LET ends == {j \in (i + 7)..Len(text) :
                        /\ text[j] = sQuote
                        /\ \A k \in (i + 6)..(j - 1) : text[k] \notin LineTerminators}
         IN  IF ends = {} THEN 0 ELSE Min(ends)

\* text.match(/href=".+?"/g) || [] -- the matches from position i on, left to
\* right, each search resuming after the previous match
RECURSIVE MatchFrom(_, _)
MatchFrom(text, i) ==
    IF i > Len(text) THEN <<>>
    ELSE IF MatchEnd(text, i) = 0 THEN MatchFrom(text, i + 1)
    ELSE <<SubSeq(text, i, MatchEnd(text, i))>> \o MatchFrom(text, MatchEnd(text, i) + 1)

MatchHrefs(text) == MatchFrom(text, 1)

\* a JavaScript value that is a string or null
JsNull == [isNull |-> TRUE, val |-> <<>>]
JsStr(s) == [isNull |-> FALSE, val |-> s]

\* the truthiness of a string-or-null value: null and "" are falsy
Truthy(v) == ~v.isNull /\ v.val # <<>>

\* lines 125-141 without the test for the literals true and false
ResolveHrefNoLiterals(href, currentUrl) ==
    IF StartsWith(href, sSlash) THEN JsStr(baseUrl \o href)
    ELSE IF \/ StartsWith(href, sHash)
            \/ StartsWith(href, sMailto)
            \/ StartsWith(href, sTel) THEN JsNull
    ELSE IF StartsWith(href, sHttp) THEN JsStr(href)
    ELSE JsStr(currentUrl \o href)

\* lines 125-141 without the branch of line 137 that keeps an absolute href
ResolveHrefNoAbsolute(href, currentUrl) ==
    IF StartsWith(href, sSlash) THEN JsStr(baseUrl \o href)
    ELSE IF \/ StartsWith(href, sHash)
            \/ StartsWith(href, sMailto)
            \/ StartsWith(href, sTel) THEN JsNull
    ELSE IF href = sTrue \/ href = sFalse THEN JsNull
    ELSE JsStr(currentUrl \o href)

\* lines 125-141: the if / else-if chain of the map callback
ResolveHref(href, currentUrl) ==
    IF StartsWith(href, sSlash) THEN JsStr(baseUrl \o href)
    ELSE IF \/ StartsWith(href, sHash)
            \/ StartsWith(href, sMailto)
            \/ StartsWith(href, sTel) THEN JsNull
    ELSE IF href = sTrue \/ href = sFalse THEN JsNull
    ELSE IF StartsWith(href, sHttp) THEN JsStr(href)
    ELSE JsStr(currentUrl \o href)

\* lines 143-145 with the split left out: the query string stays
StripQueryKeeps(v) == v

\* lines 143-145: remove the query string
StripQuery(v) == IF Truthy(v) THEN JsStr(SplitHead(v.val, sQuery)) ELSE v

\* lines 122-148: the whole map callback, on one regular-expression match
MapHref(match, currentUrl) == StripQuery(ResolveHref(Slice6(match), currentUrl))

\* lines 118-152
GetHrefs(text, currentUrl) ==
    LET matches == MatchHrefs(text)
        mapped  == [i \in 1..Len(matches) |-> MapHref(matches[i], currentUrl)]
        kept    == SelectSeq(mapped, Truthy)
    IN  [i \in 1..Len(kept) |-> kept[i].val]

-----------------------------------------------------------------------------
(* The web the crawl runs against: what fetch(url) and response.text() can
   deliver. Inputs of the program, not code of it. *)

\* the starting URLs typed on the command line
StartInputs ==
    { <<"s">>,
      <<"h", "t", "t", "p", ":", "/", "/", "s">> }

\* raw href attribute values found in pages
hA      == <<"/", "a">>
hB      == <<"/", "b">>
hC      == <<"/", "c">>
hExt    == <<"h", "t", "t", "p", "s", ":", "/", "/", "e">>
hSubdom == <<"h", "t", "t", "p", "s", ":", "/", "/", "s", ".", "e">>
hRel    == <<"b">>
hFrag   == <<"#", "x">>
hMail   == <<"m", "a", "i", "l", "t", "o", ":", "m">>
hTrue   == <<"t", "r", "u", "e">>
hQ1     == <<"/", "a", "?", "x">>
hQ2     == <<"/", "a", "?", "y">>

\* <a href="h">
Anchor(h) == <<"<", "a", " ">> \o sHrefOpen \o h \o <<"\"", ">">>

RECURSIVE Html(_)
Html(hs) == IF hs = <<>> THEN <<>> ELSE Anchor(Head(hs)) \o Html(Tail(hs))

\* the page bodies of the modelled web
Bodies ==
    { Html(<<>>),
      Html(<<hA, hB>>),
      Html(<<hC>>),
      Html(<<hA, hA>>),
      Html(<<hExt, hSubdom>>),
      Html(<<hRel, hA>>),
      Html(<<hFrag, hMail, hTrue>>),
      Html(<<hQ1, hQ2>>) }

\* the bodies the URL u can serve
BodiesOf(u) ==
    IF \E p \in pages : p.url = u THEN {p.text : p \in {q \in pages : q.url = u}}
    ELSE IF Cardinality(pages) < MaxPages THEN Bodies
    ELSE {Html(<<>>)}

\* what `await response.text()` settles to for the URL u: a body, or a rejection
TextOutcomes(u) ==
    {[ok |-> TRUE, text |-> b] : b \in BodiesOf(u)} \cup {[ok |-> FALSE, text |-> <<>>]}

ctHtml == sTextHtml \o <<";", "c", "h", "a", "r", "s", "e", "t", "=", "u">>
ctPdf  == <<"a", "p", "p", "l", "i", "c", "a", "t", "i", "o", "n", "/", "p", "d", "f">>

\* response headers: a set of name/value pairs
HeaderSets ==
    { {},
      {[name |-> "content-type", value |-> ctHtml]},
      {[name |-> "content-type", value |-> ctPdf]} }

\* what `await fetch(url)` settles to: a rejection (transport error, or a
\* string that is no URL), or a response
FetchError == [kind |-> "error", status |-> 0, headers |-> {}]
NoResponse == [kind |-> "none", status |-> 0, headers |-> {}]
Responses ==
    {[kind |-> "response", status |-> st, headers |-> h] :
        st \in {200, 404, 500}, h \in HeaderSets}

\* fetch() rejects a string it cannot parse as an http(s) URL
ParsesAsUrl(u) ==
    \/ StartsWith(u, sHttps) /\ Len(u) > Len(sHttps)
    \/ StartsWith(u, sHttpColon) /\ Len(u) > Len(sHttpColon)

FetchOutcomes(u) ==
    IF ~ParsesAsUrl(u) THEN {FetchError} ELSE {FetchError} \cup Responses

\* response.headers.get(name): the value, or null
HeadersGet(headers, name) ==
    IF \E h \in headers : h.name = name
    THEN JsStr((CHOOSE h \in headers : h.name = name).value)
    ELSE JsNull

-----------------------------------------------------------------------------
(* runLinkCheck: lines 34-116 *)

\* line 52
EntryAt(queue, position) == queue[position + 1]

\* line 55 with the membership test lost
IsVisitedNever(url) == FALSE

\* line 55
IsVisited(url) == url \in visitedUrls

\* line 64 with the test widened to every error status
IsNotFoundOrError(response) == response.status >= 400

\* line 64
IsNotFound(response) == response.status = 404

\* line 68
IsInSite(url) == StartsWith(url, baseUrl)

\* lines 69-71: contentType.includes("text/html"); null has no includes, a
\* TypeError that the catch of line 84 receives
ContentTypeThrows(response) == HeadersGet(response.headers, "content-type").isNull
IsHtml(response) == Includes(HeadersGet(response.headers, "content-type").val, sTextHtml)

\* line 76 with the filter letting every href through
NotVisitedAlways(href) == TRUE

\* line 76
NotVisited(href) == ~IsVisited(href)

\* lines 75-80 with foundOn taken from the base URL, not the current page
NewEntriesFoundOnBase(html, url) ==
    LET hrefs == SelectSeq(GetHrefs(html, url), NotVisited)
    IN  [i \in 1..Len(hrefs) |-> [url |-> hrefs[i], foundOn |-> baseUrl]]

\* lines 75-80: the new frontier entries of the page at url with body html
NewEntries(html, url) ==
    LET hrefs == SelectSeq(GetHrefs(html, url), NotVisited)
    IN  [i \in 1..Len(hrefs) |-> [url |-> hrefs[i], foundOn |-> url]]

\* line 82 with unshift in place of push
PushFront(queue, entries) == entries \o queue

\* line 82
Push(queue, entries) == queue \o entries

\* lines 86-89
BrokenRecord(url, foundOn) == [url |-> url, foundOn |-> foundOn]

\* line 86 with unshift in place of push
PushBrokenFront(links, record) == <<record>> \o links

\* line 86
PushBroken(links, record) == Append(links, record)

\* lines 84-91 with the error thrown on: runLinkCheck rejects and the run ends
CatchRethrow(e) ==
    /\ err' = e
    /\ brokenLinks' = PushBroken(brokenLinks, BrokenRecord(cur.url, cur.foundOn))
    /\ pc' = "crashed"

\* lines 84-91: the catch block, entered with the error e: "fetch" (fetch
\* rejected), "404" (thrown at line 65), "type" (the TypeError of line 71) or
\* "text" (response.text() rejected); the loop then goes on
Catch(e) ==
    /\ err' = e
    /\ brokenLinks' = PushBroken(brokenLinks, BrokenRecord(cur.url, cur.foundOn))
    /\ pc' = "loop"

\* lines 106-112: the text saved to broken-links.txt
RECURSIVE OutputLines(_)
OutputLines(links) ==
    IF links = <<>> THEN <<>>
    ELSE <<"\n", "\n">> \o Head(links).url
         \o <<"\n", "F", "o", "u", "n", "d", " ", "o", "n", ":", " ">> \o Head(links).foundOn
         \o OutputLines(Tail(links))

Output(links) ==
    <<"B", "r", "o", "k", "e", "n", " ", "L", "i", "n", "k", "s", ":", " ", "\n">>
    \o OutputLines(links)

Init ==
    \E a \in StartInputs :
        /\ argv = a
        /\ baseUrl = StartingUrl(a)
        /\ urlQueue = <<SeedEntry(StartingUrl(a))>>
        /\ visitedUrls = {}
        /\ brokenLinks = <<>>
        /\ queuePosition = 0
        /\ pc = "start"
        /\ cur = [url |-> <<>>, foundOn |-> <<>>]
        /\ resp = NoResponse
        /\ err = "none"
        /\ timerOn = FALSE
        /\ completion = 0
        /\ report = [printed |-> FALSE, totalChecked |-> 0, output |-> <<>>]
        /\ fetched = <<>>
        /\ pages = {}

\* lines 34-49: up to the first test of the while loop
Start ==
    /\ pc = "start"
    /\ timerOn' = TRUE
    /\ pc' = "loop"
    /\ UNCHANGED <<argv, baseUrl, urlQueue, visitedUrls, brokenLinks, queuePosition,
                   cur, resp, err, completion, report, fetched, pages>>

\* lines 51-56 with the increment of line 53 placed after the `continue`
LoopSkipNoIncrement ==
    /\ pc = "loop"
    /\ queuePosition < Len(urlQueue)
    /\ IsVisited(EntryAt(urlQueue, queuePosition).url)
    /\ cur' = EntryAt(urlQueue, queuePosition)
    /\ resp' = NoResponse
    /\ err' = "none"
    /\ UNCHANGED <<argv, baseUrl, urlQueue, visitedUrls, brokenLinks, queuePosition, pc,
                   timerOn, completion, report, fetched, pages>>

\* lines 51-56: pop an entry whose URL was visited, and continue
LoopSkip ==
    /\ pc = "loop"
    /\ queuePosition < Len(urlQueue)
    /\ IsVisited(EntryAt(urlQueue, queuePosition).url)
    /\ cur' = EntryAt(urlQueue, queuePosition)
    /\ queuePosition' = queuePosition + 1
    /\ resp' = NoResponse
    /\ err' = "none"
    /\ UNCHANGED <<argv, baseUrl, urlQueue, visitedUrls, brokenLinks, pc, timerOn,
                   completion, report, fetched, pages>>

\* lines 51-62 without the visitedUrls.add of line 58
LoopFetchNoMark ==
    /\ pc = "loop"
    /\ queuePosition < Len(urlQueue)
    /\ ~IsVisited(EntryAt(urlQueue, queuePosition).url)
    /\ cur' = EntryAt(urlQueue, queuePosition)
    /\ queuePosition' = queuePosition + 1
    /\ fetched' = Append(fetched, [url |-> EntryAt(urlQueue, queuePosition).url,
                                   entry |-> queuePosition + 1])
    /\ resp' = NoResponse
    /\ err' = "none"
    /\ pc' = "fetch"
    /\ UNCHANGED <<argv, baseUrl, urlQueue, visitedUrls, brokenLinks, timerOn,
                   completion, report, pages>>

\* lines 51-62: pop an entry, mark its URL visited, call fetch and suspend
LoopFetch ==
    /\ pc = "loop"
    /\ queuePosition < Len(urlQueue)
    /\ ~IsVisited(EntryAt(urlQueue, queuePosition).url)
    /\ cur' = EntryAt(urlQueue, queuePosition)
    /\ queuePosition' = queuePosition + 1
    /\ visitedUrls' = visitedUrls \cup {EntryAt(urlQueue, queuePosition).url}
    /\ fetched' = Append(fetched, [url |-> EntryAt(urlQueue, queuePosition).url,
                                   entry |-> queuePosition + 1])
    /\ resp' = NoResponse
    /\ err' = "none"
    /\ pc' = "fetch"
    /\ UNCHANGED <<argv, baseUrl, urlQueue, brokenLinks, timerOn, completion,
                   report, pages>>

\* lines 62-90: fetch settles to one of outcomes; the iteration runs on to its
\* end or to the await of response.text()
FetchSettles(outcomes) ==
    /\ pc = "fetch"
    /\ \E r \in outcomes :
        /\ resp' = r
        /\ IF r.kind = "error"
           THEN /\ Catch("fetch")
                /\ UNCHANGED urlQueue
           ELSE IF IsNotFound(r)
           THEN /\ Catch("404")
                /\ UNCHANGED urlQueue
           ELSE IF ~IsInSite(cur.url)
           THEN /\ pc' = "loop"
                /\ UNCHANGED <<urlQueue, brokenLinks, err>>
           ELSE IF ContentTypeThrows(r)
           THEN /\ Catch("type")
                /\ UNCHANGED urlQueue
           ELSE IF IsHtml(r)
           THEN /\ pc' = "text"
                /\ UNCHANGED <<urlQueue, brokenLinks, err>>
           ELSE /\ urlQueue' = Push(urlQueue, NewEntries(<<>>, cur.url))
                /\ pc' = "loop"
                /\ UNCHANGED <<brokenLinks, err>>
    /\ completion' = 0
    /\ UNCHANGED <<argv, baseUrl, visitedUrls, queuePosition, cur, timerOn,
                   report, fetched, pages>>

\* lines 62-90, against the web of FetchOutcomes
FetchReturn == FetchSettles(FetchOutcomes(cur.url))

\* lines 72-90: response.text() settles to one of outcomes
TextSettles(outcomes) ==
    /\ pc = "text"
    /\ \E t \in outcomes :
        IF t.ok
        THEN /\ urlQueue' = Push(urlQueue, NewEntries(t.text, cur.url))
             /\ pages' = pages \cup {[url |-> cur.url, status |-> resp.status,
                                      contentType |-> HeadersGet(resp.headers, "content-type").val,
                                      text |-> t.text]}
             /\ pc' = "loop"
             /\ UNCHANGED <<brokenLinks, err>>
        ELSE /\ Catch("text")
             /\ UNCHANGED <<urlQueue, pages>>
    /\ completion' = 0
    /\ UNCHANGED <<argv, baseUrl, visitedUrls, queuePosition, cur, resp, timerOn,
                   report, fetched>>

\* lines 72-90, against the web of TextOutcomes
TextReturn == TextSettles(TextOutcomes(cur.url))

\* lines 37-40 with a callback that also advances the position
ProgressTickAdvances ==
    /\ timerOn
    /\ pc \in {"fetch", "text"}
    /\ completion' = (queuePosition * 100) \div Len(urlQueue)
    /\ queuePosition' = queuePosition + 1
    /\ UNCHANGED <<argv, baseUrl, urlQueue, visitedUrls, brokenLinks,
                   pc, cur, resp, err, timerOn, report, fetched, pages>>

\* lines 37-40: the progress callback, which runs only while runLinkCheck is
\* suspended in an await
ProgressTick ==
    /\ timerOn
    /\ pc \in {"fetch", "text"}
    /\ completion' = (queuePosition * 100) \div Len(urlQueue)
    /\ UNCHANGED <<argv, baseUrl, urlQueue, visitedUrls, brokenLinks, queuePosition,
                   pc, cur, resp, err, timerOn, report, fetched, pages>>

\* lines 51, 93-115: the loop ends; the report is printed and saved
Finish ==
    /\ pc = "loop"
    /\ ~(queuePosition < Len(urlQueue))
    /\ timerOn' = FALSE
    /\ report' = [printed |-> TRUE, totalChecked |-> queuePosition,
                  output |-> Output(brokenLinks)]
    /\ pc' = "done"
    /\ UNCHANGED <<argv, baseUrl, urlQueue, visitedUrls, brokenLinks, queuePosition,
                   cur, resp, err, completion, fetched, pages>>

Next ==
    \/ Start
    \/ LoopSkip
    \/ LoopFetch
    \/ FetchReturn
    \/ TextReturn
    \/ ProgressTick
    \/ Finish

Spec == Init /\ [][Next]_vars

\* runLinkCheck runs on whenever it can: its synchronous code is not
\* preempted, and every fetch and body read settles. The progress interval
\* is not needed for progress.
Crawl == Start \/ LoopSkip \/ LoopFetch \/ FetchReturn \/ TextReturn \/ Finish

FairSpec == Spec /\ WF_vars(Crawl)

-----------------------------------------------------------------------------
(* A second family of webs, for getHrefs and the start-up code: many start
   inputs and many kinds of href, on sites two levels deep. The seed and the
   pages found on the seed serve any of ScanBodies; every other page is
   empty. *)

\* the starting URLs typed on the command line
ScanInputs ==
    { <<"s">>,
      <<"h", "t", "t", "p", ":", "/", "/", "s">>,
      <<"h", "t", "t", "p", "s", ":", "/", "/", "s">>,
      <<"h", "t", "t", "p", "x">>,
      <<"s", "?", "x">>,
      <<"s", "/">> }

\* further raw href attribute values
hTel      == <<"t", "e", "l", ":", "1">>
hFalse    == <<"f", "a", "l", "s", "e">>
hQOnly    == <<"?", "x">>
hRelQ1    == <<"b", "?", "x">>
hRelQ2    == <<"b", "?", "y">>
hTrueQ    == <<"t", "r", "u", "e", "?", "x">>
hExtQ     == <<"h", "t", "t", "p", "s", ":", "/", "/", "e", "?", "q">>
hHttpWord == <<"h", "t", "t", "p", "x">>
hProtoRel == <<"/", "/", "e">>

ScanHrefs ==
    { hA, hB, hC, hExt, hSubdom, hRel, hFrag, hMail, hTrue, hQ1, hQ2,
      hTel, hFalse, hQOnly, hRelQ1, hRelQ2, hTrueQ, hExtQ, hHttpWord, hProtoRel }

ScanBodies ==
    {Html(<<h>>) : h \in ScanHrefs}
    \cup { Html(<<>>),
           Html(<<hQ1, hQ2>>),
           Html(<<hRelQ1, hRelQ2>>),
           Html(<<hExt, hExtQ>>),
           Html(<<hFrag, hMail, hTrue>>),
           Html(<<hTel, hFalse>>),
           Html(<<hA, hFrag>>) }

ScanBodiesOf(u) ==
    IF \E p \in pages : p.url = u THEN {p.text : p \in {q \in pages : q.url = u}}
    ELSE IF cur.foundOn \in {sBaseUrlSentinel, baseUrl} THEN ScanBodies
    ELSE {Html(<<>>)}

ScanTextOutcomes(u) ==
    {[ok |-> TRUE, text |-> b] : b \in ScanBodiesOf(u)} \cup {[ok |-> FALSE, text |-> <<>>]}

ScanFetchOutcomes(u) ==
    IF ~ParsesAsUrl(u) THEN {FetchError}
    ELSE {FetchError,
          [kind |-> "response", status |-> 200,
           headers |-> {[name |-> "content-type", value |-> ctHtml]}]}

ScanInit ==
    \E a \in ScanInputs :
        /\ argv = a
        /\ baseUrl = StartingUrl(a)
        /\ urlQueue = <<SeedEntry(StartingUrl(a))>>
        /\ visitedUrls = {}
        /\ brokenLinks = <<>>
        /\ queuePosition = 0
        /\ pc = "start"
        /\ cur = [url |-> <<>>, foundOn |-> <<>>]
        /\ resp = NoResponse
        /\ err = "none"
        /\ timerOn = FALSE
        /\ completion = 0
        /\ report = [printed |-> FALSE, totalChecked |-> 0, output |-> <<>>]
        /\ fetched = <<>>
        /\ pages = {}

\* lines 62-90, against the web of ScanFetchOutcomes
ScanFetchReturn == FetchSettles(ScanFetchOutcomes(cur.url))

\* lines 72-90, against the web of ScanTextOutcomes
ScanTextReturn == TextSettles(ScanTextOutcomes(cur.url))

ScanNext ==
    \/ Start
    \/ LoopSkip
    \/ LoopFetch
    \/ ScanFetchReturn
    \/ ScanTextReturn
    \/ Finish

ScanSpec == ScanInit /\ [][ScanNext]_vars

-----------------------------------------------------------------------------
(* Notions the properties are stated with *)

\* the URLs fetch was called with
FetchedUrls == {fetched[i].url : i \in DOMAIN fetched}

\* the position in the fetch order of the (first) fetch of u
FetchIndex(u) == Min({i \in DOMAIN fetched : fetched[i].url = u})

\* the scheme and host of an absolute URL: everything before the first "/",
\* "?" or "#" that follows the scheme
HostEnd(rest) == SplitHead(SplitHead(SplitHead(rest, sSlash), sQuery), sHash)
SchemeHost(u) ==
    IF StartsWith(u, sHttps)
    THEN sHttps \o HostEnd(SubSeq(u, Len(sHttps) + 1, Len(u)))
    ELSE IF StartsWith(u, sHttpColon)
    THEN sHttpColon \o HostEnd(SubSeq(u, Len(sHttpColon) + 1, Len(u)))
    ELSE u

\* the elements of a sequence
Range(q) == {q[i] : i \in DOMAIN q}

\* q is an initial part of r
IsPrefix(q, r) == Len(q) <= Len(r) /\ SubSeq(r, 1, Len(q)) = q

-----------------------------------------------------------------------------
(* C1 *)

\* C1: across a run a fetch is issued at most once for each distinct URL
\* string, whatever the link graph and the fetch outcomes: no two fetch calls
\* carry the same URL.
FetchedAtMostOnce ==
    \A i, j \in DOMAIN fetched : fetched[i].url = fetched[j].url => i = j

\* a finished run whose frontier held the same URL twice, one of them a URL
\* whose fetch had failed
FetchedAtMostOnceWitness ==
    /\ pc = "done"
    /\ \E i, j \in DOMAIN urlQueue :
        /\ i < j
        /\ urlQueue[i].url = urlQueue[j].url
        /\ \E k \in DOMAIN brokenLinks : brokenLinks[k].url = urlQueue[i].url

-----------------------------------------------------------------------------
(* C2 *)

\* C2: on a finite web, acyclic or cyclic, where every fetch settles, the
\* crawl loop terminates: eventually the frontier position equals the frontier
\* length, and from then on the frontier does not grow and the position stays.
CrawlTerminates ==
    <>[](pc = "done" /\ queuePosition = Len(urlQueue))

\* a finished run over a cyclic link graph: a scanned page other than the seed
\* links to itself
CrawlTerminatesWitness ==
    /\ pc = "done"
    /\ queuePosition = Len(urlQueue)
    /\ \E p \in pages :
        /\ p.url # baseUrl
        /\ p.url \in Range(GetHrefs(p.text, p.url))

-----------------------------------------------------------------------------
(* C3 *)

\* the fetch order of the example: seed, then A, B, C
ExampleOrder == <<baseUrl, baseUrl \o hA, baseUrl \o hB, baseUrl \o hC>>

\* the web of the example: the seed links to A then B, and A links to C
ExampleWeb ==
    /\ \E p \in pages : p.url = baseUrl /\ p.text = Html(<<hA, hB>>)
    /\ \E p \in pages : p.url = baseUrl \o hA /\ p.text = Html(<<hC>>)

\* C3: URLs are fetched in the FIFO order of the frontier: every fetch is the
\* fetch of a frontier entry, and of two fetched entries the one earlier in the
\* frontier is fetched first; for a seed linking to A then B, with A linking to
\* C, the fetch order is seed, A, B, C.
FetchedInFrontierOrder ==
    /\ \A i \in DOMAIN fetched :
        /\ fetched[i].entry \in DOMAIN urlQueue
        /\ urlQueue[fetched[i].entry].url = fetched[i].url
    /\ \A i, j \in DOMAIN fetched : fetched[i].entry < fetched[j].entry => i < j
    /\ ExampleWeb =>
        /\ \A k \in DOMAIN fetched : k <= 4 => fetched[k].url = ExampleOrder[k]
        /\ pc = "done" => Len(fetched) >= 4

\* the example's run, finished
FetchedInFrontierOrderWitness ==
    /\ pc = "done"
    /\ ExampleWeb
    /\ [k \in 1..4 |-> fetched[k].url] = ExampleOrder

-----------------------------------------------------------------------------
(* C4 *)

\* C4: a URL is appended to the broken-links collection if and only if its
\* fetch failed with a transport error (the rejection of fetch, or of the body
\* read) or returned HTTP status 404; every other outcome, whatever its status,
\* headers and body, adds no record.
BrokenIffFailedOr404 ==
    [][ (brokenLinks' # brokenLinks) <=>
            \/ pc = "fetch" /\ (resp'.kind = "error" \/ resp'.status = 404)
            \/ pc = "text" /\ err' = "text" ]_vars

-----------------------------------------------------------------------------
(* C6 *)

\* C6: cross-origin pages are checked but not crawled: the body of a URL whose
\* scheme and host differ from the starting URL's is never read, and no
\* frontier entry was found on such a URL.
CrossOriginNeverScanned ==
    /\ pc = "text" => SchemeHost(cur.url) = SchemeHost(baseUrl)
    /\ \A p \in pages : SchemeHost(p.url) = SchemeHost(baseUrl)
    /\ \A i \in DOMAIN urlQueue :
        i > 1 => SchemeHost(urlQueue[i].foundOn) = SchemeHost(baseUrl)

-----------------------------------------------------------------------------
(* C7 *)

\* C7: at the end of a run the reported total of links checked equals the
\* number of distinct URLs for which a fetch was issued.
TotalCheckedIsFetchedCount ==
    pc = "done" => report.totalChecked = Cardinality(FetchedUrls)

-----------------------------------------------------------------------------
(* C5 *)

\* C5: a failure while processing one frontier entry never ends the run: the
\* step that fails adds exactly one broken-link record, for that entry, and
\* returns to the loop with the frontier as it was; no entry ever leaves the
\* frontier; and after a failure the run still pops every entry and reaches its
\* report stage.
FailureNeverEndsRun ==
    /\ [][ (err = "none" /\ err' # "none") =>
              /\ brokenLinks' = Append(brokenLinks, [url |-> cur.url, foundOn |-> cur.foundOn])
              /\ urlQueue' = urlQueue
              /\ pc' = "loop" ]_vars
    /\ [][ IsPrefix(urlQueue, urlQueue') ]_vars
    /\ (err # "none") ~> (pc = "done" /\ report.printed /\ queuePosition = Len(urlQueue))

\* a finished run in which an entry failed while later entries were still to
\* be fetched
FailureNeverEndsRunWitness ==
    /\ pc = "done"
    /\ report.printed
    /\ \E k \in DOMAIN brokenLinks : FetchIndex(brokenLinks[k].url) < Len(fetched)

-----------------------------------------------------------------------------
(* C8 *)

\* the seed's iteration has just ended in a failed fetch or a 404
SeedFailed == queuePosition = 1 /\ err \in {"fetch", "404"}

\* C8: if the seed URL's fetch returns 404 or fails, the run terminates with
\* exactly one broken-link record, the seed URL found on "base URL", a total
\* of 1 link checked, and a frontier that holds the seed entry alone.
SeedBrokenReport ==
    /\ [](SeedFailed =>
            /\ brokenLinks = <<[url |-> baseUrl, foundOn |-> sBaseUrlSentinel]>>
            /\ urlQueue = <<[url |-> baseUrl, foundOn |-> sBaseUrlSentinel]>>
            /\ pc \in {"loop", "done"}
            /\ pc = "done" =>
                /\ report.totalChecked = 1
                /\ report.output = Output(<<[url |-> baseUrl, foundOn |-> sBaseUrlSentinel]>>))
    /\ SeedFailed ~> (pc = "done" /\ report.printed /\ SeedFailed)

\* the finished run of a seed that returned 404
SeedBrokenReportWitness ==
    /\ pc = "done"
    /\ report.printed
    /\ queuePosition = 1
    /\ err = "404"

-----------------------------------------------------------------------------
(* C9 *)

\* C9: broken-link records are in breadth-first discovery order: of two
\* records the earlier one's URL was fetched first; a record once appended is
\* never reordered, changed or removed; and the report lists the records in
\* that order.
BrokenInDiscoveryOrder ==
    /\ [](\A i \in DOMAIN brokenLinks : brokenLinks[i].url \in FetchedUrls)
    /\ [](\A i, j \in DOMAIN brokenLinks :
            i < j => FetchIndex(brokenLinks[i].url) < FetchIndex(brokenLinks[j].url))
    /\ [][ IsPrefix(brokenLinks, brokenLinks') ]_vars
    /\ [](pc = "done" => report.output = Output(brokenLinks))

\* a finished run with two broken links or more
BrokenInDiscoveryOrderWitness ==
    /\ pc = "done"
    /\ Len(brokenLinks) >= 2

-----------------------------------------------------------------------------
(* C10 *)

\* the page p was fetched with success, is in-origin (its string form begins
\* with the starting URL's origin) and HTML, and its body holds an href that
\* normalizes to u
LinksTo(p, u) ==
    /\ p.url \in FetchedUrls
    /\ p.status # 404
    /\ \A k \in DOMAIN brokenLinks : brokenLinks[k].url # p.url
    /\ StartsWith(p.url, SchemeHost(baseUrl))
    /\ Includes(p.contentType, sTextHtml)
    /\ u \in Range(GetHrefs(p.text, p.url))

\* C10: every broken-link record carries a true attribution: it is the seed
\* found on "base URL", or foundOn is the URL of a page that was fetched with
\* success, was in-origin and HTML, and whose body held an href that
\* normalizes to the record's url.
TrueAttribution ==
    \A k \in DOMAIN brokenLinks :
        \/ brokenLinks[k].url = baseUrl /\ brokenLinks[k].foundOn = sBaseUrlSentinel
        \/ \E p \in pages : p.url = brokenLinks[k].foundOn /\ LinksTo(p, brokenLinks[k].url)

\* a finished run with a broken link that was found on a page other than the
\* seed
TrueAttributionWitness ==
    /\ pc = "done"
    /\ \E k \in DOMAIN brokenLinks :
        /\ brokenLinks[k].foundOn # sBaseUrlSentinel
        /\ brokenLinks[k].foundOn # baseUrl

-----------------------------------------------------------------------------
(* C11 *)

\* the raw href values of the anchors of a page text, in order
RawHrefs(text) == [i \in 1..Len(MatchHrefs(text)) |-> Slice6(MatchHrefs(text)[i])]

\* an href that is no fetchable page, or a suspicious literal
IsDiscardable(h) ==
    \/ StartsWith(h, <<"#">>)
    \/ StartsWith(h, <<"m", "a", "i", "l", "t", "o", ":">>)
    \/ StartsWith(h, <<"t", "e", "l", ":">>)
    \/ h = <<"t", "r", "u", "e">>
    \/ h = <<"f", "a", "l", "s", "e">>
NotDiscardable(h) == ~IsDiscardable(h)

\* normalize(h, p, baseUrl): a string, or null for discard
Normalize(h, p) == StripQuery(ResolveHref(h, p))

\* the frontier entries a step appended
Appended == SubSeq(urlQueue', Len(urlQueue) + 1, Len(urlQueue'))

-----------------------------------------------------------------------------
(* C12 *)

\* the input names a scheme
HasScheme(a) == Includes(a, <<":", "/", "/">>)

\* C12: for every starting-URL input the seed URL of the crawl begins with
\* https://: an input with no scheme gets https:// prepended, and an input
\* that begins with http:// has that scheme replaced by https://.
SeedBeginsWithHttps ==
    /\ urlQueue[1].url = baseUrl
    /\ StartsWith(baseUrl, <<"h", "t", "t", "p", "s", ":", "/", "/">>)
    /\ ~HasScheme(argv) => baseUrl = <<"h", "t", "t", "p", "s", ":", "/", "/">> \o argv
    /\ StartsWith(argv, <<"h", "t", "t", "p", ":", "/", "/">>) =>
          baseUrl = <<"h", "t", "t", "p", "s", ":", "/", "/">> \o SubSeq(argv, 8, Len(argv))

-----------------------------------------------------------------------------
(* C13 *)

\* two hrefs that differ only in what follows their first "?"
SameUpToQuery(h1, h2) ==
    /\ Includes(h1, <<"?">>)
    /\ Includes(h2, <<"?">>)
    /\ SplitHead(h1, <<"?">>) = SplitHead(h2, <<"?">>)

\* how many fetches were issued for a URL of the set
FetchCount(urls) == Cardinality({k \in DOMAIN fetched : fetched[k].url \in urls})

\* C13: query strings are ignored by normalization: on every scanned page,
\* whatever the base, two hrefs that differ only in what follows their first
\* "?" normalize to the same canonical URL, and at most one fetch is ever
\* issued for the two of them.
QueryStringIgnored ==
    \A p \in pages :
        \A i, j \in DOMAIN RawHrefs(p.text) :
            LET h1 == RawHrefs(p.text)[i]
                h2 == RawHrefs(p.text)[j]
            IN  SameUpToQuery(h1, h2) =>
                    /\ Normalize(h1, p.url) = Normalize(h2, p.url)
                    /\ FetchCount({Normalize(h1, p.url).val, Normalize(h2, p.url).val}) <= 1

\* a page with two links that differ in their query strings has been scanned,
\* and their common target has been fetched
QueryStringIgnoredWitness ==
    /\ pc = "done"
    /\ \E p \in pages :
        \E i, j \in DOMAIN RawHrefs(p.text) :
            /\ RawHrefs(p.text)[i] # RawHrefs(p.text)[j]
            /\ SameUpToQuery(RawHrefs(p.text)[i], RawHrefs(p.text)[j])
            /\ FetchCount({Normalize(RawHrefs(p.text)[i], p.url).val}) = 1

-----------------------------------------------------------------------------
(* C14 *)

\* C14: normalization is idempotent on its own output: for every href of
\* every scanned page, whatever the base, if the normalized href is not
\* discarded then normalizing it again against the same page and base gives
\* it back unchanged.
NormalizeIdempotent ==
    \A p \in pages :
        \A i \in DOMAIN RawHrefs(p.text) :
            LET n == Normalize(RawHrefs(p.text)[i], p.url)
            IN  Truthy(n) => Normalize(n.val, p.url) = n

\* a page below the seed has been scanned, and a relative href of it was
\* resolved against that page and enqueued
NormalizeIdempotentWitness ==
    /\ pc = "done"
    /\ \E p \in pages :
        /\ p.url # baseUrl
        /\ \E i \in DOMAIN RawHrefs(p.text) :
            LET h == RawHrefs(p.text)[i]
            IN  /\ ~StartsWith(h, <<"/">>)
                /\ ~StartsWith(h, <<"h", "t", "t", "p">>)
                /\ Truthy(Normalize(h, p.url))
                /\ \E k \in DOMAIN urlQueue :
                    urlQueue[k] = [url |-> Normalize(h, p.url).val, foundOn |-> p.url]

-----------------------------------------------------------------------------
(* C15 *)

\* C15: discovered URLs are de-duplicated when they are enqueued, against the
\* pending and the visited URLs: in every reachable state no two frontier
\* entries have the same url, and every entry popped so far was fetched, once,
\* none being skipped.
NoDuplicateFrontierUrls ==
    /\ \A i, j \in DOMAIN urlQueue : urlQueue[i].url = urlQueue[j].url => i = j
    /\ \A i \in 1..queuePosition :
           Cardinality({k \in DOMAIN fetched : fetched[k].entry = i}) = 1

-----------------------------------------------------------------------------
(* C16 *)

\* C16: in every reachable state every entry of the frontier, the seed entry
\* included, has a url that is an absolute URL and holds no "?".
FrontierUrlsCanonical ==
    \A i \in DOMAIN urlQueue :
        /\ ParsesAsUrl(urlQueue[i].url)
        /\ ~Includes(urlQueue[i].url, <<"?">>)

-----------------------------------------------------------------------------
(* C17 *)

\* runLinkCheck is suspended in the fetch of an entry, or in the read of its body
InFlight == pc \in {"fetch", "text"}

\* C17: the check and the mark of the visited set precede the fetch of every
\* entry: while a fetch for a URL is in flight that URL is in the visited set,
\* and a fetch is issued only when none is in flight, for a URL that was not
\* in the visited set and is put in it by the same step.
MarkPrecedesFetch ==
    /\ [](InFlight => /\ cur.url \in visitedUrls
                      /\ fetched # <<>>
                      /\ fetched[Len(fetched)].url = cur.url)
    /\ [][ fetched' # fetched =>
               /\ ~InFlight
               /\ pc' = "fetch"
               /\ fetched' = Append(fetched, fetched'[Len(fetched')])
               /\ fetched'[Len(fetched')].url = cur'.url
               /\ cur'.url \notin visitedUrls
               /\ cur'.url \in visitedUrls' ]_vars

\* a fetch is in flight while another frontier entry for the same URL, added
\* before, is still pending
MarkPrecedesFetchWitness ==
    /\ pc = "fetch"
    /\ cur.url \in visitedUrls
    /\ \E i \in (queuePosition + 1)..Len(urlQueue) : urlQueue[i].url = cur.url

-----------------------------------------------------------------------------
(* C18 *)

\* the response r to the fetch of the current entry is an in-origin one whose
\* content-type does not contain text/html
InSiteNonHtml(r) ==
    /\ r.kind = "response"
    /\ ~IsNotFound(r)
    /\ IsInSite(cur.url)
    /\ ~ContentTypeThrows(r)
    /\ ~IsHtml(r)

\* C18: an iteration whose outcome is broken, or whose in-origin response has
\* a content-type that does not contain text/html, leaves the frontier as it
\* was; no step removes a frontier entry; and the URLs a step appends are not
\* in the visited set at that moment, and are not the page's own URL.
FrontierFrame ==
    [][ /\ brokenLinks' # brokenLinks => urlQueue' = urlQueue
        /\ (pc = "fetch" /\ InSiteNonHtml(resp')) => urlQueue' = urlQueue /\ pc' = "loop"
        /\ IsPrefix(urlQueue, urlQueue')
        /\ \A i \in (Len(urlQueue) + 1)..Len(urlQueue') :
               /\ urlQueue'[i].url \notin visitedUrls
               /\ urlQueue'[i].url # cur.url ]_vars

\* an in-origin resource that is not HTML has just been fetched, after the
\* scan of a page that links to itself and got no frontier entry for that link
FrontierFrameWitness ==
    /\ pc = "loop"
    /\ InSiteNonHtml(resp)
    /\ \E p \in pages :
        /\ p.url \in Range(GetHrefs(p.text, p.url))
        /\ \A i \in DOMAIN urlQueue : urlQueue[i] # [url |-> p.url, foundOn |-> p.url]
    /\ brokenLinks # <<>>

-----------------------------------------------------------------------------
(* C19 *)

\* the response r to the fetch of the current entry is an in-origin one with
\* an error status other than 404 and a text/html content type
InSiteErrorHtml(r) ==
    /\ r.kind = "response"
    /\ r.status >= 400
    /\ r.status # 404
    /\ IsInSite(cur.url)
    /\ ~ContentTypeThrows(r)
    /\ IsHtml(r)

-----------------------------------------------------------------------------
(* C20 *)

\* the percentage the progress callback would display in this state
Percentage == (queuePosition * 100) \div Len(urlQueue)

\* C20: in every reachable state, the states between the issue of a fetch and
\* its completion included, the frontier has at least one entry and the
\* position is between 0 and the frontier length, so the percentage displayed
\* is within 0..100; and a run of the timer callback changes none of the
\* frontier, the position, the visited set and the broken-links list.
ProgressWithinBounds ==
    /\ [](/\ 1 <= Len(urlQueue)
          /\ 0 <= queuePosition
          /\ queuePosition <= Len(urlQueue)
          /\ Percentage \in 0..100
          /\ completion \in 0..100)
    /\ [][ (InFlight /\ pc' = pc) =>
               UNCHANGED <<urlQueue, queuePosition, visitedUrls, brokenLinks>> ]_vars

\* the timer callback has run during a fetch in the middle of the crawl, and
\* displayed a percentage strictly between 0 and 100
ProgressWithinBoundsWitness ==
    /\ InFlight
    /\ Len(urlQueue) > 1
    /\ 0 < completion
    /\ completion < 100
    /\ completion = Percentage

====
